---- MODULE Spec2Model ----
(***************************************************************************)
(* Pet care system: the domain model (Pet, Dog, Cat, Bird), the manager    *)
(* that owns the pet list and writes it through to data/pets_data.json,    *)
(* and the GUI handlers that mutate pets and call save_data.               *)
(*                                                                         *)
(* Dates.  A "%Y-%m-%d" string is modelled by the triple <<y, m, d>> of    *)
(* its fields; strptime validates the triple against the calendar and      *)
(* yields a datetime at midnight, subtraction of datetimes goes through    *)
(* the proleptic Gregorian ordinal, and timedelta.days is the floor of     *)
(* the difference in whole days.  datetime.now() is the clock's date plus  *)
(* a time of day in ticks.                                                 *)
(*                                                                         *)
(* JSON.  A JSON object is a record whose DOMAIN is its key set, a JSON    *)
(* array a sequence.  All values the program writes are JSON-native, so    *)
(* the text encoding is not modelled beyond that.                          *)
(***************************************************************************)
EXTENDS Integers, Sequences, FiniteSets, TLC

\* ---------------------------------------------------------------- bounds
MaxPets == 2          \* pets in the store
MaxExtraTasks == 1    \* care tasks added to a pet through the add-task dialog
MaxRecords == 2       \* health records per pet
MaxOps == 2           \* mutating operations and day changes in one run
MaxFaults == 1        \* failed writes in one run
TicksPerDay == 2      \* resolution of the time of day

\* ------------------------------------------------------- calendar (datetime)
IsLeap(y) == (y % 4 = 0 /\ y % 100 # 0) \/ y % 400 = 0

DaysInMonth(y, m) ==
    IF m = 2 THEN (IF IsLeap(y) THEN 29 ELSE 28)
    ELSE IF m \in {4, 6, 9, 11} THEN 30 ELSE 31

\* days of a common year before the first of each month
CommonDaysBefore == <<0, 31, 59, 90, 120, 151, 181, 212, 243, 273, 304, 334>>

DaysBeforeMonth(y, m) ==
    CommonDaysBefore[m] + (IF m > 2 /\ IsLeap(y) THEN 1 ELSE 0)

DaysBeforeYear(y) ==
    (y - 1) * 365 + ((y - 1) \div 4) - ((y - 1) \div 100) + ((y - 1) \div 400)

\* date.toordinal(): day 1 is 0001-01-01
toordinal(date) ==
    DaysBeforeYear(date[1]) + DaysBeforeMonth(date[1], date[2]) + date[3]

\* strptime(s, "%Y-%m-%d") succeeds exactly on calendar dates
ValidDate(s) ==
    /\ s[1] \in 1..9999
    /\ s[2] \in 1..12
    /\ s[3] \in 1..DaysInMonth(s[1], s[2])

StartDate == <<2024, 2, 28>>

\* the calendar date after date
NextDate(date) ==
    IF date[3] < DaysInMonth(date[1], date[2]) THEN <<date[1], date[2], date[3] + 1>>
    ELSE IF date[2] < 12 THEN <<date[1], date[2] + 1, 1>>
    ELSE <<date[1] + 1, 1, 1>>

\* datetime.now().strftime("%Y-%m-%d"): the date fields, the time dropped
strftime(now) == <<now.year, now.month, now.day>>

\* days_between counting a started day as a whole one
days_between_started(now, last_done) ==
    ((toordinal(<<now.year, now.month, now.day>>) * TicksPerDay + now.tod)
        - toordinal(last_done) * TicksPerDay + (TicksPerDay - 1)) \div TicksPerDay

\* (current_date - last_done).days with last_done at midnight
days_between(now, last_done) ==
    ((toordinal(<<now.year, now.month, now.day>>) * TicksPerDay + now.tod)
        - toordinal(last_done) * TicksPerDay) \div TicksPerDay

\* ------------------------------------------------------------------ Pet
\* The default care tasks each variant's constructor adds, in order.
DogTasks == <<[task |-> "Walk", frequency_days |-> 1],
              [task |-> "Feed", frequency_days |-> 1],
              [task |-> "Bath", frequency_days |-> 7],
              [task |-> "Vet Checkup", frequency_days |-> 90]>>

CatTasks == <<[task |-> "Feed", frequency_days |-> 1],
              [task |-> "Litter Box Clean", frequency_days |-> 2],
              [task |-> "Brush", frequency_days |-> 3],
              [task |-> "Vet Checkup", frequency_days |-> 90]>>

BirdTasks == <<[task |-> "Feed", frequency_days |-> 1],
               [task |-> "Cage Clean", frequency_days |-> 3],
               [task |-> "Wing Trim", frequency_days |-> 60],
               [task |-> "Vet Checkup", frequency_days |-> 180]>>

\* add_care_task with the default of last_done evaluated once, at import
add_care_task_import_date(pet, task, frequency_days, now) ==
    [pet EXCEPT !.care_schedule =
        Append(@, [task |-> task,
                   frequency_days |-> frequency_days,
                   last_done |-> StartDate])]

\* Pet.add_care_task(task, frequency_days) with last_done=None
add_care_task(pet, task, frequency_days, now) ==
    [pet EXCEPT !.care_schedule =
        Append(@, [task |-> task,
                   frequency_days |-> frequency_days,
                   last_done |-> strftime(now)])]

\* add_health_record inserting the new record first
add_health_record_first(pet, record_type, description, now) ==
    [pet EXCEPT !.health_records =
        <<[type |-> record_type,
           description |-> description,
           date |-> strftime(now)]>> \o @]

\* Pet.add_health_record(record_type, description) with date=None
add_health_record(pet, record_type, description, now) ==
    [pet EXCEPT !.health_records =
        Append(@, [type |-> record_type,
                   description |-> description,
                   date |-> strftime(now)])]

RECURSIVE AddDefaults(_, _, _)
AddDefaults(pet, tasks, now) ==
    IF tasks = <<>> THEN pet
    ELSE AddDefaults(
            add_care_task(pet, Head(tasks).task, Head(tasks).frequency_days, now),
            Tail(tasks), now)

Dog(name, age, breed, size, now) ==
    AddDefaults([cls |-> "Dog", name |-> name, age |-> age, breed |-> breed,
                 care_schedule |-> <<>>, health_records |-> <<>>,
                 size |-> size], DogTasks, now)

Cat(name, age, breed, indoor, now) ==
    AddDefaults([cls |-> "Cat", name |-> name, age |-> age, breed |-> breed,
                 care_schedule |-> <<>>, health_records |-> <<>>,
                 indoor |-> indoor], CatTasks, now)

Bird(name, age, breed, can_fly, now) ==
    AddDefaults([cls |-> "Bird", name |-> name, age |-> age, breed |-> breed,
                 care_schedule |-> <<>>, health_records |-> <<>>,
                 can_fly |-> can_fly], BirdTasks, now)

\* One iteration of the loop of get_overdue_tasks raises when the entry
\* lacks a key it reads or its last_done is no calendar date.
EntryRaises(task, now) ==
    \/ "last_done" \notin DOMAIN task
    \/ ~ValidDate(task.last_done)
    \/ "frequency_days" \notin DOMAIN task
    \/ /\ days_between(now, task.last_done) >= task.frequency_days
       /\ "task" \notin DOMAIN task

\* The entries the loop appends, when no iteration raises.
RECURSIVE OverdueFrom(_, _, _)
OverdueFrom(schedule, i, now) ==
    IF i > Len(schedule) THEN <<>>
    ELSE (IF days_between(now, schedule[i].last_done) >= schedule[i].frequency_days
          THEN <<[task |-> schedule[i].task,
                  days_overdue |-> days_between(now, schedule[i].last_done)
                                   - schedule[i].frequency_days + 1]>>
          ELSE <<>>)
         \o OverdueFrom(schedule, i + 1, now)

\* Some iteration of the loop of get_overdue_tasks raises.
LoopRaises(pet, now) ==
    \E i \in 1..Len(pet.care_schedule) : EntryRaises(pet.care_schedule[i], now)

\* Pet.get_overdue_tasks(): the list, or an exception out of the loop
get_overdue_tasks(pet, now) ==
    IF LoopRaises(pet, now)
    THEN [raised |-> TRUE, value |-> <<>>]
    ELSE [raised |-> FALSE, value |-> OverdueFrom(pet.care_schedule, 1, now)]

\* Pet.to_dict alone, as if the subclasses did not extend it
to_dict_base(pet) ==
    [type |-> pet.cls, name |-> pet.name, age |-> pet.age, breed |-> pet.breed,
     care_schedule |-> pet.care_schedule, health_records |-> pet.health_records]

\* Pet.to_dict, extended by Dog.to_dict / Cat.to_dict / Bird.to_dict with
\* the attribute of the variant
to_dict(pet) ==
    IF pet.cls = "Dog"
    THEN [type |-> pet.cls, name |-> pet.name, age |-> pet.age, breed |-> pet.breed,
          care_schedule |-> pet.care_schedule,
          health_records |-> pet.health_records, size |-> pet.size]
    ELSE IF pet.cls = "Cat"
    THEN [type |-> pet.cls, name |-> pet.name, age |-> pet.age, breed |-> pet.breed,
          care_schedule |-> pet.care_schedule,
          health_records |-> pet.health_records, indoor |-> pet.indoor]
    ELSE [type |-> pet.cls, name |-> pet.name, age |-> pet.age, breed |-> pet.breed,
          care_schedule |-> pet.care_schedule,
          health_records |-> pet.health_records, can_fly |-> pet.can_fly]

\* dict.get(key, default)
Get(data, key, default) == IF key \in DOMAIN data THEN data[key] ELSE default

\* create_pet_from_data extending the default schedule of the constructor
\* with the stored one instead of replacing it
create_pet_from_data_extend(data, now) ==
    IF {"type", "name", "age", "breed"} \subseteq DOMAIN data
    THEN LET made ==
                IF data.type = "Dog"
                THEN <<Dog(data.name, data.age, data.breed,
                           Get(data, "size", "Medium"), now)>>
                ELSE IF data.type = "Cat"
                THEN <<Cat(data.name, data.age, data.breed,
                           Get(data, "indoor", TRUE), now)>>
                ELSE IF data.type = "Bird"
                THEN <<Bird(data.name, data.age, data.breed,
                            Get(data, "can_fly", TRUE), now)>>
                ELSE <<>>
         IN  IF made = <<>> THEN <<>>
             ELSE <<[made[1] EXCEPT
                        !.care_schedule = @ \o Get(data, "care_schedule", <<>>),
                        !.health_records = Get(data, "health_records", <<>>)]>>
    ELSE <<>>

\* PetCareManager.create_pet_from_data: <<pet>>, or <<>> for None
create_pet_from_data(data, now) ==
    IF {"type", "name", "age", "breed"} \subseteq DOMAIN data
    THEN LET made ==
                IF data.type = "Dog"
                THEN <<Dog(data.name, data.age, data.breed,
                           Get(data, "size", "Medium"), now)>>
                ELSE IF data.type = "Cat"
                THEN <<Cat(data.name, data.age, data.breed,
                           Get(data, "indoor", TRUE), now)>>
                ELSE IF data.type = "Bird"
                THEN <<Bird(data.name, data.age, data.breed,
                            Get(data, "can_fly", TRUE), now)>>
                ELSE <<>>
         IN  IF made = <<>> THEN <<>>
             ELSE <<[made[1] EXCEPT
                        !.care_schedule = Get(data, "care_schedule", <<>>),
                        !.health_records = Get(data, "health_records", <<>>)]>>
    ELSE <<>>

\* ------------------------------------------------------- PetCareManager
VARIABLES
    pets,    \* PetCareManager.pets: the in-memory sequence of Pet objects
    ids,     \* ids[i] is the object identity of pets[i]
    disk,    \* data/pets_data.json: [kind, doc]
    today,   \* the clock's current date
    last,    \* the last operation: its name, arguments and outcome
    ops,     \* mutating operations so far
    faults   \* failed writes so far

vars == <<pets, ids, disk, today, last, ops, faults>>

\* datetime.now()
Now(tod) == [year |-> today[1], month |-> today[2], day |-> today[3], tod |-> tod]
Tods == 0..(TicksPerDay - 1)

\* The file is absent, is no JSON text, is JSON but no array, or is an array.
Absent == [kind |-> "absent", doc |-> <<>>]
Corrupt == [kind |-> "corrupt", doc |-> <<>>]
Scalar == [kind |-> "scalar", doc |-> <<>>]
Document(records) == [kind |-> "doc", doc |-> records]

RECURSIVE MapToDict(_)
MapToDict(ps) ==
    IF ps = <<>> THEN <<>> ELSE <<to_dict(Head(ps))>> \o MapToDict(Tail(ps))

\* save_data without its try/except: a failure reaches the caller before
\* the handler has its result
save_data_uncaught(ps, file, fault) ==
    [pets |-> IF fault = "none" THEN ps ELSE <<>>,
     disk |-> IF fault = "none" THEN Document(MapToDict(ps))
              ELSE IF fault = "open" THEN file
              ELSE Corrupt,
     raised |-> fault # "none",
     save |-> IF fault = "none" THEN "ok" ELSE "failed"]

\* PetCareManager.save_data.  fault is what the file system does: "none",
\* "open" (open() fails, the file is untouched) or "write" (open() has
\* truncated the file and json.dump fails before the text is complete).
\* Every exception is caught: nothing is raised and self.pets is not touched.
save_data(ps, file, fault) ==
    [pets |-> ps,
     disk |-> IF fault = "none" THEN Document(MapToDict(ps))
              ELSE IF fault = "open" THEN file
              ELSE Corrupt,
     raised |-> FALSE,
     save |-> IF fault = "none" THEN "ok" ELSE "failed"]

\* the loop of load_data ending at the first record that yields no pet
RECURSIVE LoadRecords_abort(_, _)
LoadRecords_abort(data, now) ==
    IF data = <<>> THEN <<>>
    ELSE IF create_pet_from_data(Head(data), now) = <<>> THEN <<>>
    ELSE create_pet_from_data(Head(data), now) \o LoadRecords_abort(Tail(data), now)

\* the loop of load_data
RECURSIVE LoadRecords(_, _)
LoadRecords(data, now) ==
    IF data = <<>> THEN <<>>
    ELSE create_pet_from_data(Head(data), now) \o LoadRecords(Tail(data), now)

\* PetCareManager.load_data on a fresh manager (self.pets = [])
load_data(file, now) ==
    IF file.kind = "doc" THEN LoadRecords(file.doc, now) ELSE <<>>

\* add_pet saving before it appends
add_pet_save_first(ps, pet, file, fault) ==
    [save_data(ps, file, fault) EXCEPT !.pets = Append(ps, pet)]

\* PetCareManager.add_pet
add_pet(ps, pet, file, fault) == save_data(Append(ps, pet), file, fault)

\* removal of the first pet of the name only, as list.remove would do
RECURSIVE KeepOthers_first(_, _)
KeepOthers_first(ps, pet_name) ==
    IF ps = <<>> THEN <<>>
    ELSE IF Head(ps).name = pet_name THEN Tail(ps)
    ELSE <<Head(ps)>> \o KeepOthers_first(Tail(ps), pet_name)

\* [pet for pet in self.pets if pet.name != pet_name]
RECURSIVE KeepOthers(_, _)
KeepOthers(ps, pet_name) ==
    IF ps = <<>> THEN <<>>
    ELSE (IF Head(ps).name # pet_name THEN <<Head(ps)>> ELSE <<>>)
         \o KeepOthers(Tail(ps), pet_name)

\* PetCareManager.remove_pet
remove_pet(ps, pet_name, file, fault) ==
    save_data(KeepOthers(ps, pet_name), file, fault)

\* PetCareManager.get_pet_by_name: <<pet>>, or <<>> for None
RECURSIVE get_pet_by_name(_, _)
get_pet_by_name(ps, name) ==
    IF ps = <<>> THEN <<>>
    ELSE IF Head(ps).name = name THEN <<Head(ps)>>
    ELSE get_pet_by_name(Tail(ps), name)

RECURSIVE TagOverdue(_, _)
TagOverdue(pet_name, overdue) ==
    IF overdue = <<>> THEN <<>>
    ELSE <<[pet_name |-> pet_name, task |-> Head(overdue).task,
            days_overdue |-> Head(overdue).days_overdue]>>
         \o TagOverdue(pet_name, Tail(overdue))

\* the loop of get_all_overdue_tasks putting the entries of each pet in front
\* of those collected so far
RECURSIVE AllOverdue_prepend(_, _)
AllOverdue_prepend(ps, now) ==
    IF ps = <<>> THEN <<>>
    ELSE AllOverdue_prepend(Tail(ps), now)
         \o TagOverdue(Head(ps).name, get_overdue_tasks(Head(ps), now).value)

\* the loops of get_all_overdue_tasks
RECURSIVE AllOverdue(_, _)
AllOverdue(ps, now) ==
    IF ps = <<>> THEN <<>>
    ELSE TagOverdue(Head(ps).name, get_overdue_tasks(Head(ps), now).value)
         \o AllOverdue(Tail(ps), now)

\* PetCareManager.get_all_overdue_tasks: the list, or the exception of a pet
get_all_overdue_tasks(ps, now) ==
    IF \E i \in 1..Len(ps) : LoopRaises(ps[i], now)
    THEN [raised |-> TRUE, value |-> <<>>]
    ELSE [raised |-> FALSE, value |-> AllOverdue(ps, now)]

\* ------------------------------------------------------------- inputs
Names == {"Rex", "Tom"}
PetTypes == {"Dog", "Cat", "Bird"}
\* what the extra combobox holds for each pet type in the runs explored
ExtraValues(selected_type) ==
    IF selected_type = "Dog" THEN {"Large"}
    ELSE IF selected_type = "Cat" THEN {"Outdoor"}
    ELSE {"Cannot fly"}
TaskNames == {"Feed"}
Frequencies == {0, 2}
RecordTypes == {"Checkup"}
Descriptions == {"a"}
Faults == {"none", "open", "write"}
\* the tasks picked in the mark-done dialog: the first and the last of the pet
TaskIndexes(pet_index) ==
    IF pet_index \in 1..Len(pets) THEN {1, Len(pets[pet_index].care_schedule)} ELSE {}

\* Records found in the storage document at start-up.
StoredRex ==
    [type |-> "Dog", name |-> "Rex", age |-> 5, breed |-> "Lab",
     care_schedule |-> <<[task |-> "Walk", frequency_days |-> 1,
                          last_done |-> <<2024, 2, 26>>],
                         [task |-> "Bath", frequency_days |-> 7,
                          last_done |-> <<2024, 3, 5>>]>>,
     health_records |-> <<>>, size |-> "Small"]
StoredTom ==
    [type |-> "Cat", name |-> "Tom", age |-> 2, breed |-> "Siamese",
     health_records |-> <<[type |-> "Vaccination", description |-> "Rabies shot",
                           date |-> <<2024, 1, 15>>]>>]
StoredFish ==
    [type |-> "Fish", name |-> "Rex", age |-> 1, breed |-> "Koi",
     care_schedule |-> <<>>, health_records |-> <<>>]
StoredNoBreed ==
    [type |-> "Dog", name |-> "Tom", age |-> 4,
     care_schedule |-> <<>>, health_records |-> <<>>, size |-> "Large"]
StoredBadDate ==
    [type |-> "Bird", name |-> "Tom", age |-> 1, breed |-> "Finch",
     care_schedule |-> <<[task |-> "Feed", frequency_days |-> 1,
                          last_done |-> <<2024, 2, 30>>]>>,
     health_records |-> <<>>, can_fly |-> TRUE]

InitDisks ==
    {Absent, Corrupt, Scalar,
     Document(<<>>),
     Document(<<StoredRex, StoredFish>>),
     Document(<<StoredTom, StoredNoBreed, StoredRex, StoredTom>>),
     Document(<<StoredBadDate>>)}

\* ---------------------------------------------------- object identities
IdPool == 1..(MaxPets + 1)
Range(f) == {f[i] : i \in 1..Len(f)}
Min(S) == CHOOSE x \in S : \A y \in S : x <= y

\* The identities of n new objects: the least ones no live object has.
RECURSIVE Allocate(_, _)
Allocate(n, taken) ==
    IF n = 0 THEN <<>>
    ELSE LET id == Min(IdPool \ taken)
         IN  <<id>> \o Allocate(n - 1, taken \cup {id})

\* The identities of the objects the comprehension of remove_pet keeps.
KeptIds(ps, is, pet_name) ==
    LET keep(i) == ps[i].name # pet_name
        F[i \in 0..Len(ps)] ==
            IF i = 0 THEN <<>>
            ELSE IF keep(i) THEN Append(F[i - 1], is[i]) ELSE F[i - 1]
    IN  F[Len(ps)]

Outcome(op, name, r) ==
    [op |-> op, name |-> name, raised |-> r.raised, save |-> r.save,
     atSave |-> IF r.save = "none" THEN <<>> ELSE r.atSave]

\* The state handed to save_data, next to what save_data made of it.
Saved(r, ps) == [pets |-> r.pets, disk |-> r.disk, raised |-> r.raised,
                 save |-> r.save, atSave |-> ps]

NoSave == [raised |-> FALSE, save |-> "none"]

\* --------------------------------------------------------------- start
\* PetCareManager.__init__: self.pets = [], then load_data()
Init ==
    /\ today = StartDate
    /\ disk \in InitDisks
    /\ pets = load_data(disk, [year |-> StartDate[1], month |-> StartDate[2],
                               day |-> StartDate[3], tod |-> 0])
    /\ ids = Allocate(Len(pets), {})
    /\ last = Outcome("load", "", NoSave)
    /\ ops = 0
    /\ faults = 0

\* A new process: a new PetCareManager built from the storage.
Restart ==
    /\ pets' = load_data(disk, Now(0))
    /\ ids' = Allocate(Len(pets'), {})
    /\ last' = Outcome("load", "", NoSave)
    /\ UNCHANGED <<disk, today, ops, faults>>

\* The day ends.
Tick ==
    /\ ops < MaxOps
    /\ ops' = ops + 1
    /\ today' = NextDate(today)
    /\ last' = Outcome("tick", "", NoSave)
    /\ UNCHANGED <<pets, ids, disk, faults>>

\* ------------------------------------------------------- GUI handlers
\* One more mutating operation, its write failing or not.
Budget(fault) ==
    /\ ops < MaxOps
    /\ fault # "none" => faults < MaxFaults
    /\ ops' = ops + 1
    /\ faults' = IF fault = "none" THEN faults ELSE faults + 1

ReplaceAt(ps, i, pet) == [ps EXCEPT ![i] = pet]

\* add_pet_dialog.save_pet with a name, age "3" and an empty breed entry
SavePet(selected_type, name, extra_value, fault) ==
    /\ Budget(fault)
    /\ Len(pets) < MaxPets
    /\ LET pet ==
                  IF selected_type = "Dog"
                  THEN Dog(name, 3, "Unknown", extra_value, Now(0))
                  ELSE IF selected_type = "Cat"
                  THEN Cat(name, 3, "Unknown", extra_value = "Indoor", Now(0))
                  ELSE Bird(name, 3, "Unknown", extra_value = "Can fly", Now(0))
              r == add_pet(pets, pet, disk, fault)
          IN  /\ pets' = r.pets
              /\ disk' = r.disk
              /\ last' = Outcome("add_pet", "", Saved(r, Append(pets, pet)))
    /\ ids' = ids \o Allocate(1, Range(ids))
    /\ UNCHANGED today

\* PetCareManager.remove_pet(pet_name), as PetCareGUI.remove_pet calls it
RemovePet(pet_name, fault) ==
    /\ Budget(fault)
    /\ LET r == remove_pet(pets, pet_name, disk, fault)
       IN  /\ pets' = r.pets
           /\ disk' = r.disk
           /\ last' = Outcome("remove_pet", pet_name,
                              Saved(r, KeepOthers(pets, pet_name)))
    /\ ids' = KeptIds(pets, ids, pet_name)
    /\ UNCHANGED today

\* pet.care_schedule[task_index]['last_done'] = today's date
mark_done(pet, task_index, now) ==
    [pet EXCEPT !.care_schedule[task_index] =
        IF "last_done" \in DOMAIN @ THEN [@ EXCEPT !.last_done = strftime(now)]
        ELSE ("last_done" :> strftime(now)) @@ @]

\* mark_task_done.mark_done on the selected pet and task
MarkDone(pet_index, task_index, fault) ==
    /\ Budget(fault)
    /\ pet_index \in 1..Len(pets)
    /\ task_index \in 1..Len(pets[pet_index].care_schedule)
    /\ LET ps == ReplaceAt(pets, pet_index,
                              mark_done(pets[pet_index], task_index, Now(0)))
              r == save_data(ps, disk, fault)
          IN  /\ pets' = r.pets
              /\ disk' = r.disk
              /\ last' = Outcome("mark_done", "", Saved(r, ps))
    /\ UNCHANGED <<ids, today>>

\* add_task_dialog.save_task: int(freq_entry.get()) is the only check
SaveTask(pet_index, task, frequency, fault) ==
    /\ Budget(fault)
    /\ pet_index \in 1..Len(pets)
    /\ Len(pets[pet_index].care_schedule) < Len(DogTasks) + MaxExtraTasks
    /\ LET ps == ReplaceAt(pets, pet_index,
                              add_care_task(pets[pet_index], task, frequency, Now(0)))
              r == save_data(ps, disk, fault)
          IN  /\ pets' = r.pets
              /\ disk' = r.disk
              /\ last' = Outcome("add_task", "", Saved(r, ps))
    /\ UNCHANGED <<ids, today>>

\* add_health_record_dialog.save_record with a non-empty description
SaveRecord(pet_index, record_type, description, fault) ==
    /\ Budget(fault)
    /\ pet_index \in 1..Len(pets)
    /\ Len(pets[pet_index].health_records) < MaxRecords
    /\ LET ps == ReplaceAt(pets, pet_index,
                              add_health_record(pets[pet_index], record_type,
                                                description, Now(0)))
              r == save_data(ps, disk, fault)
          IN  /\ pets' = r.pets
              /\ disk' = r.disk
              /\ last' = Outcome("add_record", "", Saved(r, ps))
    /\ UNCHANGED <<ids, today>>

Next ==
    \/ \E t \in PetTypes, n \in Names, f \in Faults :
          \E x \in ExtraValues(t) : SavePet(t, n, x, f)
    \/ \E n \in Names, f \in Faults : RemovePet(n, f)
    \/ \E i \in 1..MaxPets, f \in Faults :
          \E j \in TaskIndexes(i) : MarkDone(i, j, f)
    \/ \E i \in 1..MaxPets, t \in TaskNames, q \in Frequencies, f \in Faults :
          SaveTask(i, t, q, f)
    \/ \E i \in 1..MaxPets, t \in RecordTypes, d \in Descriptions, f \in Faults :
          SaveRecord(i, t, d, f)
    \/ Restart
    \/ Tick

Spec == Init /\ [][Next]_vars

\* ----------------------------------------------------------- properties
MutatingOps == {"add_pet", "remove_pet", "add_task", "mark_done", "add_record"}

\* The serialization of a pet sequence: the record of each pet, in order.
Serialization(ps) == Document([i \in 1..Len(ps) |-> to_dict(ps[i])])

WellFormedEntry(e) ==
    /\ {"task", "frequency_days", "last_done"} \subseteq DOMAIN e
    /\ ValidDate(e.last_done)

\* n such that the reference date is last_done + n days
DaysSince(e) == toordinal(today) - toordinal(e.last_done)

Due(schedule) ==
    {k \in 1..Len(schedule) : DaysSince(schedule[k]) >= schedule[k].frequency_days}

\* C2: with today = last_done + n days, overdue_tasks reports an entry of
\* cadence f iff n >= f, with days_overdue = n - f + 1, at any time of the day;
\* the entries reported are in care schedule order and nothing else is reported.
C2_OverdueExact ==
    \A i \in 1..Len(pets), tod \in Tods :
        \A schedule \in {pets[i].care_schedule} :
            (\A k \in 1..Len(schedule) : WellFormedEntry(schedule[k])) =>
                \A r \in {get_overdue_tasks(pets[i], Now(tod))}, due \in {Due(schedule)} :
                    /\ ~r.raised
                    /\ Len(r.value) = Cardinality(due)
                    /\ \A k \in due :
                          r.value[Cardinality({j \in due : j <= k})] =
                              [task |-> schedule[k].task,
                               days_overdue |-> DaysSince(schedule[k])
                                                - schedule[k].frequency_days + 1]

\* a pet with an entry on its first overdue day (n = f), one later (n > f)
\* and one not yet due
C2_Witness ==
    \E i \in 1..Len(pets) :
        LET schedule == pets[i].care_schedule
        IN  /\ \A k \in 1..Len(schedule) : WellFormedEntry(schedule[k])
            /\ \E k \in 1..Len(schedule) :
                  DaysSince(schedule[k]) = schedule[k].frequency_days
            /\ \E k \in 1..Len(schedule) :
                  DaysSince(schedule[k]) > schedule[k].frequency_days
            /\ \E k \in 1..Len(schedule) :
                  /\ DaysSince(schedule[k]) < schedule[k].frequency_days
                  /\ \E j \in Due(schedule) : j > k

\* C3: deserializing the serialized record of any pet of the store gives a
\* pet equal to it: variant, name, age, breed, the attribute of the variant,
\* and both sequences, with no default task added.
C3_RoundTrip ==
    \A i \in 1..Len(pets), tod \in Tods :
        create_pet_from_data(to_dict(pets[i]), Now(tod)) = <<pets[i]>>

\* a Cat whose schedule was changed after construction
C3_Witness ==
    \E i \in 1..Len(pets) :
        /\ pets[i].cls = "Cat"
        /\ pets[i].indoor = FALSE
        /\ Len(pets[i].care_schedule) = Len(CatTasks) + 1

\* C4: remove(name) leaves exactly the pets of another name, in their order;
\* find_by_name(name) is then absent, and with no match nothing changes.
C4_RemoveAll ==
    [][last'.op = "remove_pet" =>
          /\ pets' = SelectSeq(pets, LAMBDA p : p.name # last'.name)
          /\ get_pet_by_name(pets', last'.name) = <<>>
          /\ (\A i \in 1..Len(pets) : pets[i].name # last'.name) => pets' = pets
      ]_vars

\* the first and the last pet, both of the name, were removed; the pet
\* between them stays
C4_Witness ==
    /\ last.op = "remove_pet"
    /\ last.name = "Tom"
    /\ Len(pets) = 1
    /\ pets[1].name = "Rex"
    /\ ids = <<2>>

WellFormedRecord(data) ==
    /\ {"type", "name", "age", "breed"} \subseteq DOMAIN data
    /\ data.type \in PetTypes

\* C5: a load yields one pet per well-formed record of the document, in the
\* order of the document, and raises nothing; other records are skipped.
C5_LoadSkipsMalformed ==
    last.op = "load" =>
        LET wf == IF disk.kind = "doc"
                  THEN SelectSeq(disk.doc, WellFormedRecord) ELSE <<>>
        IN  /\ ~last.raised
            /\ Len(pets) = Len(wf)
            /\ \A k \in 1..Len(wf) :
                  /\ pets[k].cls = wf[k].type
                  /\ pets[k].name = wf[k].name
                  /\ pets[k].age = wf[k].age
                  /\ pets[k].breed = wf[k].breed
                  /\ pets[k].care_schedule = Get(wf[k], "care_schedule", <<>>)
                  /\ pets[k].health_records = Get(wf[k], "health_records", <<>>)

\* one well-formed record and one of unrecognized type: exactly one pet
C5_Witness ==
    /\ last.op = "load"
    /\ disk = Document(<<StoredRex, StoredFish>>)
    /\ Len(pets) = 1
    /\ pets[1].name = "Rex"

\* C6: a failed write raises nothing to the caller of the mutating operation
\* and leaves self.pets as the operation made it before save_data ran.
C6_FailedSaveHarmless ==
    last.save = "failed" => (~last.raised /\ pets = last.atSave)

\* a pet was added while the write failed, and it is in the store
C6_Witness ==
    /\ last.op = "add_pet"
    /\ last.save = "failed"
    /\ pets # <<>>
    /\ pets = last.atSave
    /\ disk # Serialization(pets)

\* C7 (as claimed): no core operation raises to its caller, whatever the
\* storage held: neither the last operation nor an overdue query now.
C7_NeverRaises ==
    /\ ~last.raised
    /\ \A tod \in Tods : ~get_all_overdue_tasks(pets, Now(tod)).raised

\* C8: right after a pet of any variant was constructed and added, none of
\* its tasks is overdue today, at any time of the day.
C8_FreshPetNotOverdue ==
    last.op = "add_pet" =>
        \A tod \in Tods :
            get_overdue_tasks(pets[Len(pets)], Now(tod)) =
                [raised |-> FALSE, value |-> <<>>]

\* a Bird constructed on a day after the start of the process
C8_Witness ==
    /\ last.op = "add_pet"
    /\ pets[Len(pets)].cls = "Bird"
    /\ Len(pets[Len(pets)].care_schedule) = Len(BirdTasks)
    /\ today # StartDate

IsPrefix(s, t) == Len(s) <= Len(t) /\ \A k \in 1..Len(s) : s[k] = t[k]

\* C9: across every operation but a load, the health records a pet object
\* of the store had are a prefix of those it has afterwards.
C9_HealthRecordsAppendOnly ==
    [][last'.op # "load" =>
          \A i \in 1..Len(pets), j \in 1..Len(pets') :
              ids[i] = ids'[j] =>
                  IsPrefix(pets[i].health_records, pets'[j].health_records)
      ]_vars

\* a record was appended to a pet that had one already
C9_Witness ==
    /\ last.op = "add_record"
    /\ \E i \in 1..Len(pets) :
          /\ Len(pets[i].health_records) = 2
          /\ pets[i].health_records[1].description = "Rabies shot"
          /\ pets[i].health_records[2].description = "a"

\* C10 (as claimed): every care schedule entry of every pet has a cadence of
\* at least one day.
C10_FrequencyPositive ==
    \A i \in 1..Len(pets) :
        \A k \in 1..Len(pets[i].care_schedule) :
            "frequency_days" \in DOMAIN pets[i].care_schedule[k] =>
                pets[i].care_schedule[k].frequency_days >= 1

\* How many entries the first n of the per-pet lists hold together.
RECURSIVE EntriesOfFirst(_, _)
EntriesOfFirst(lists, n) ==
    IF n = 0 THEN 0 ELSE EntriesOfFirst(lists, n - 1) + Len(lists[n])

\* all is the concatenation of the lists own[1], own[2], ..., each entry
\* tagged with the name of its pet: entry k of own[i] stands at position
\* (entries of the lists before i) + k, and all has no other entry.
IsTaggedConcatenation(all, own) ==
    /\ Len(all) = EntriesOfFirst(own, Len(own))
    /\ \A i \in 1..Len(own) :
          \A k \in 1..Len(own[i]) :
              all[EntriesOfFirst(own, i - 1) + k] =
                  [pet_name |-> pets[i].name,
                   task |-> own[i][k].task,
                   days_overdue |-> own[i][k].days_overdue]

\* C11: get_all_overdue_tasks() is the concatenation of get_overdue_tasks()
\* of every pet, taken in collection order, each entry tagged with the name
\* of the pet that owns it and carrying that pet's task and days_overdue;
\* nothing is added, dropped or reordered.  The call raises exactly when the
\* call of some pet raises.
C11_AllOverdueIsConcatenation ==
    \A tod \in Tods :
        \A all \in {get_all_overdue_tasks(pets, Now(tod))} :
            \A per \in {[i \in 1..Len(pets) |-> get_overdue_tasks(pets[i], Now(tod))]} :
                /\ all.raised <=> \E i \in 1..Len(pets) : per[i].raised
                /\ ~all.raised =>
                      IsTaggedConcatenation(all.value,
                                            [i \in 1..Len(pets) |-> per[i].value])

\* Two pets of different names both report overdue entries, the second one
\* more than one, and the call does not raise.
C11_Witness ==
    /\ Len(pets) = 2
    /\ pets[1].name # pets[2].name
    /\ ~get_all_overdue_tasks(pets, Now(0)).raised
    /\ Len(get_overdue_tasks(pets[1], Now(0)).value) >= 1
    /\ Len(get_overdue_tasks(pets[2], Now(0)).value) >= 2
    /\ Len(get_all_overdue_tasks(pets, Now(0)).value) >= 3

\* The pet without the care schedule entry at position j.
WithoutEntry(pet, j) ==
    [pet EXCEPT !.care_schedule =
        [k \in 1..(Len(@) - 1) |-> IF k < j THEN @[k] ELSE @[k + 1]]]

\* Marking entry j of pet i as done changes nothing but that entry's
\* last_done, which becomes today's date: the other pets, the pet's other
\* fields, its other entries and the entry's other keys stay as they were.
MarkDoneFrame(i, j) ==
    /\ Len(pets') = Len(pets)
    /\ \A p \in 1..Len(pets) : p # i => pets'[p] = pets[p]
    /\ [pets'[i] EXCEPT !.care_schedule = pets[i].care_schedule] = pets[i]
    /\ Len(pets'[i].care_schedule) = Len(pets[i].care_schedule)
    /\ \A k \in 1..Len(pets[i].care_schedule) :
          k # j => pets'[i].care_schedule[k] = pets[i].care_schedule[k]
    /\ DOMAIN pets'[i].care_schedule[j] =
          DOMAIN pets[i].care_schedule[j] \cup {"last_done"}
    /\ \A key \in DOMAIN pets[i].care_schedule[j] :
          key # "last_done" =>
              pets'[i].care_schedule[j][key] = pets[i].care_schedule[j][key]
    /\ pets'[i].care_schedule[j].last_done = today

\* Right after it get_overdue_tasks() does not report entry j: what it
\* returns is what it returns for the pet without that entry.
MarkDoneNotReported(i, j) ==
    \A tod \in Tods :
        ~get_overdue_tasks(pets'[i], Now(tod)).raised =>
            get_overdue_tasks(pets'[i], Now(tod)).value =
                get_overdue_tasks(WithoutEntry(pets'[i], j), Now(tod)).value

\* C12 (as claimed): marking the care task at index j of pet i as done sets
\* only that entry's last_done to today, leaves every other entry (also one
\* of the same task name), the entry's task and frequency_days, the health
\* records and every other pet unchanged, and right after it that entry is
\* not reported as overdue.
C12_MarkDoneFrameAndFresh ==
    [][\A i \in 1..Len(pets), fault \in Faults :
         \A j \in 1..Len(pets[i].care_schedule) :
            MarkDone(i, j, fault) =>
                (MarkDoneFrame(i, j) /\ MarkDoneNotReported(i, j))]_vars

\* The frame alone, after every mark-done.
C12_MarkDoneFrameOnly ==
    [][\A i \in 1..Len(pets), fault \in Faults :
         \A j \in 1..Len(pets[i].care_schedule) :
            MarkDone(i, j, fault) => MarkDoneFrame(i, j)]_vars

\* The entry is not reported whenever its frequency_days is at least one.
C12_FreshWhenFrequencyPositive ==
    [][\A i \in 1..Len(pets), fault \in Faults :
         \A j \in 1..Len(pets[i].care_schedule) :
            (MarkDone(i, j, fault) /\ pets[i].care_schedule[j].frequency_days >= 1)
                => MarkDoneNotReported(i, j)]_vars

\* A new PetCareManager built from the storage now, at any time of the day,
\* would hold the collection this one holds.
RestartEquivalent == \A tod \in Tods : load_data(disk, Now(tod)) = pets

\* C13: restart equivalence.  Right after a mutating operation whose save
\* succeeded, a new manager built from the storage holds a collection equal
\* to the in-memory one (same pets, same order, same variant, attributes,
\* care schedule and health records); and this stays so through the passing
\* of days, restarts and further operations until a save fails.
C13_RestartEquivalence ==
    [][IF last'.op \in MutatingOps /\ last'.save = "ok"
       THEN RestartEquivalent'
       ELSE (last'.save # "failed" /\ RestartEquivalent) => RestartEquivalent']_vars

\* After a failed save, a later save has succeeded on a store of three pets
\* of two variants, one of them with a health record, and the storage
\* loads back to that store.
C13_Witness ==
    /\ last.op \in {"add_task", "mark_done", "add_record"}
    /\ last.save = "ok"
    /\ faults = 1
    /\ Len(pets) = 3
    /\ pets[1].cls = "Cat" /\ pets[2].cls = "Dog"
    /\ pets[2].size = "Small"
    /\ Len(pets[1].health_records) >= 1
    /\ RestartEquivalent

====
